------------------------------ MODULE Spec2Model ------------------------------
(***************************************************************************)
(* A model of razzie/chessimage: the Tile coordinate model, the geometry   *)
(* calculator and the Renderer's layer compositor.                         *)
(*                                                                         *)
(* A canvas (gg.Context) is its side and the ordered list of the drawing   *)
(* operations applied to it; the colour of a pixel is that of the last     *)
(* operation covering it (PixelAt).  Go strings that the code indexes or   *)
(* scans are sequences of one-character strings; strings used only as map  *)
(* keys or paths are strings.                                              *)
(***************************************************************************)
EXTENDS Integers, Sequences, FiniteSets, TLC

VARIABLES
    board,      \* Renderer.board: the decoded positions
    checkTile,  \* Renderer.checkTile
    lastMove,   \* Renderer.lastMove: Nil or [From, To]
    drawSize,   \* Renderer.drawSize: shared by every Render call
    context,    \* Renderer.context: Nil or the canvas of the latest Render
    calls,      \* per caller: the position inside Render, its Options, its result
    input,      \* argument of a direct call of a pure function
    output      \* its result

vars == <<board, checkTile, lastMove, drawSize, context, calls, input, output>>

Nil == "nil"

-----------------------------------------------------------------------------
(* Go integer arithmetic: / and % truncate toward zero.                    *)

GoDiv(a, b) == IF a >= 0 THEN a \div b ELSE -((-a) \div b)

GoMod(a, b) == a - b * GoDiv(a, b)

\* conversion int -> int8 (type Tile int8)
ToInt8(n) == ((n + 128) % 256) - 128

-----------------------------------------------------------------------------
(* Tile model                                                              *)

\* the const block: NoTile Tile = iota - 1, then A8 .. H1
TileConsts == <<
    "NoTile", "A8", "B8", "C8", "D8", "E8", "F8", "G8",
    "H8", "A7", "B7", "C7", "D7", "E7", "F7", "G7",
    "H7", "A6", "B6", "C6", "D6", "E6", "F6", "G6",
    "H6", "A5", "B5", "C5", "D5", "E5", "F5", "G5",
    "H5", "A4", "B4", "C4", "D4", "E4", "F4", "G4",
    "H4", "A3", "B3", "C3", "D3", "E3", "F3", "G3",
    "H3", "A2", "B2", "C2", "D2", "E2", "F2", "G2",
    "H2", "A1", "B1", "C1", "D1", "E1", "F1", "G1",
    "H1" >>

TileConst(name) == (CHOOSE i \in 1..Len(TileConsts) : TileConsts[i] = name) - 1 - 1

NoTile == -1

E8 == TileConst("E8")

D1 == TileConst("D1")

H5 == TileConst("H5")

Tiles == 0..63

\* func (s Tile) rank() int
rank(s) == GoDiv(s, 8)

rankInverted(s) == 7 - rank(s)

\* func (s Tile) file() int
file(s) == GoMod(s, 8)

fileInverted(s) == 7 - file(s)

tileFromRankFile(r, f) == ToInt8(f * 8 + r)

tileMap == [
    a1 |-> TileConst("A1"), a2 |-> TileConst("A2"), a3 |-> TileConst("A3"), a4 |-> TileConst("A4"),
    a5 |-> TileConst("A5"), a6 |-> TileConst("A6"), a7 |-> TileConst("A7"), a8 |-> TileConst("A8"),
    b1 |-> TileConst("B1"), b2 |-> TileConst("B2"), b3 |-> TileConst("B3"), b4 |-> TileConst("B4"),
    b5 |-> TileConst("B5"), b6 |-> TileConst("B6"), b7 |-> TileConst("B7"), b8 |-> TileConst("B8"),
    c1 |-> TileConst("C1"), c2 |-> TileConst("C2"), c3 |-> TileConst("C3"), c4 |-> TileConst("C4"),
    c5 |-> TileConst("C5"), c6 |-> TileConst("C6"), c7 |-> TileConst("C7"), c8 |-> TileConst("C8"),
    d1 |-> TileConst("D1"), d2 |-> TileConst("D2"), d3 |-> TileConst("D3"), d4 |-> TileConst("D4"),
    d5 |-> TileConst("D5"), d6 |-> TileConst("D6"), d7 |-> TileConst("D7"), d8 |-> TileConst("D8"),
    e1 |-> TileConst("E1"), e2 |-> TileConst("E2"), e3 |-> TileConst("E3"), e4 |-> TileConst("E4"),
    e5 |-> TileConst("E5"), e6 |-> TileConst("E6"), e7 |-> TileConst("E7"), e8 |-> TileConst("E8"),
    f1 |-> TileConst("F1"), f2 |-> TileConst("F2"), f3 |-> TileConst("F3"), f4 |-> TileConst("F4"),
    f5 |-> TileConst("F5"), f6 |-> TileConst("F6"), f7 |-> TileConst("F7"), f8 |-> TileConst("F8"),
    g1 |-> TileConst("G1"), g2 |-> TileConst("G2"), g3 |-> TileConst("G3"), g4 |-> TileConst("G4"),
    g5 |-> TileConst("G5"), g6 |-> TileConst("G6"), g7 |-> TileConst("G7"), g8 |-> TileConst("G8"),
    h1 |-> TileConst("H1"), h2 |-> TileConst("H2"), h3 |-> TileConst("H3"), h4 |-> TileConst("H4"),
    h5 |-> TileConst("H5"), h6 |-> TileConst("H6"), h7 |-> TileConst("H7"), h8 |-> TileConst("H8") ]

\* a lookup miss that returns the zero Tile (A8) in place of NoTile
TileFromAN_zeroValue(an) ==
    IF an \in DOMAIN tileMap
    THEN [tile |-> tileMap[an], err |-> Nil]
    ELSE [tile |-> 0, err |-> "tile " \o an \o " not found"]

\* TileFromAN: the pair (Tile, error)
TileFromAN(an) ==
    IF an \in DOMAIN tileMap
    THEN [tile |-> tileMap[an], err |-> Nil]
    ELSE [tile |-> NoTile, err |-> "tile " \o an \o " not found"]

-----------------------------------------------------------------------------
(* Options and the geometry calculator                                     *)

defaultBoardSize == 512

\* 0.9; a PieceRatio is the fraction num/den
defaultPieceRatio == [num |-> 9, den |-> 10]

\* Render, the defaulting of the Options it was passed
defaults(o) ==
    LET o1 == IF o.BoardSize <= 0 THEN [o EXCEPT !.BoardSize = defaultBoardSize] ELSE o
        o2 == IF o1.PieceRatio.num <= 0 THEN [o1 EXCEPT !.PieceRatio = defaultPieceRatio] ELSE o1
        o3 == IF o2.Resizer = Nil THEN [o2 EXCEPT !.Resizer = "CatmullRom"] ELSE o2
    IN  o3

\* int(float64(gridSize) * ratio): the product is exact for the ratios used
\* (n/4 is a binary fraction; 0.9 as a float64 lies just above 9/10, so the
\* product never falls below an integer that 9*gridSize/10 reaches)
scaleInt(n, ratio) == GoDiv(n * ratio.num, ratio.den)

calcDrawSize_floorOffset(o) ==
    LET gridSize == GoDiv(o.BoardSize, 8)
        pieceSize == scaleInt(gridSize, o.PieceRatio)
    IN  [gridSize |-> gridSize, pieceSize |-> pieceSize,
         pieceOffset |-> (gridSize - pieceSize) \div 2]

calcDrawSize(o) ==
    LET gridSize == GoDiv(o.BoardSize, 8)
        pieceSize == scaleInt(gridSize, o.PieceRatio)
    IN  [gridSize |-> gridSize, pieceSize |-> pieceSize,
         pieceOffset |-> GoDiv(gridSize - pieceSize, 2)]

-----------------------------------------------------------------------------
(* FEN decoder (fen.go is not among the sources: modelled from the         *)
(* specification, section 4.2)                                             *)

PieceSymbols == {"p", "n", "b", "r", "q", "k", "P", "N", "B", "R", "Q", "K"}

DigitValue == [d \in {"1", "2", "3", "4", "5", "6", "7", "8"} |->
                 CHOOSE n \in 1..8 : <<"1", "2", "3", "4", "5", "6", "7", "8">>[n] = d]

\* the placement field: the characters before the first space
placementField(fen) ==
    LET spaces == {k \in 1..Len(fen) : fen[k] = " "}
        stop == IF spaces = {} THEN Len(fen) + 1
                ELSE CHOOSE k \in spaces : \A j \in spaces : k <= j
    IN  SubSeq(fen, 1, stop - 1)

\* the squares a character moves the file cursor by
advance(ch) == IF ch \in DOMAIN DigitValue THEN DigitValue[ch] ELSE 1

RECURSIVE sumAdvance(_, _, _)
sumAdvance(field, from, to) ==
    IF from > to THEN 0 ELSE advance(field[to]) + sumAdvance(field, from, to - 1)

\* the rank cursor when character k is read: one step per "/" before it
rankCursor(field, k) == Cardinality({j \in 1..(k - 1) : field[j] = "/"})

\* the file cursor when character k is read: reset by the last "/" before
\* it, advanced by every digit and piece since
fileCursor(field, k) ==
    LET slashes == {j \in 1..(k - 1) : field[j] = "/"}
        start == IF slashes = {} THEN 0
                 ELSE CHOOSE j \in slashes : \A i \in slashes : i <= j
    IN  sumAdvance(field, start + 1, k - 1)

\* the cursors [rank, file, sym] of the pieces, in scan order
fenCursors(fen) ==
    LET field == placementField(fen)
        pieces == SelectSeq([k \in 1..Len(field) |-> k], LAMBDA k : field[k] \in PieceSymbols)
    IN  [i \in 1..Len(pieces) |->
            [rank |-> rankCursor(field, pieces[i]), file |-> fileCursor(field, pieces[i]),
             sym |-> field[pieces[i]]]]

fenError(fen) ==
    LET field == placementField(fen)
    IN  \/ field = <<>>
        \/ \E k \in 1..Len(field) :
              field[k] \notin PieceSymbols \cup DOMAIN DigitValue \cup {"/"}

\* decodeFEN: the board, one position per piece in scan order
decodeFEN(fen) ==
    LET cursors == fenCursors(fen)
    IN  [i \in 1..Len(cursors) |->
            [tile |-> tileFromRankFile(cursors[i].rank, cursors[i].file),
             pieceSymbol |-> cursors[i].sym]]

-----------------------------------------------------------------------------
(* Canvas: gg.Context as its side and the operations drawn on it           *)

colorLight == <<240, 217, 181>>

colorDark == <<181, 136, 99>>

colorHighlightLight == <<247, 193, 99>>

colorHighlightDark == <<215, 149, 54>>

colorCheck == <<255, 0, 0>>

fileSymbols == <<"a", "b", "c", "d", "e", "f", "g", "h">>

fileSymbolsReverse == <<"h", "g", "f", "e", "d", "c", "b", "a">>

rankSymbols == <<"1", "2", "3", "4", "5", "6", "7", "8">>

rankSymbolsReverse == <<"8", "7", "6", "5", "4", "3", "2", "1">>

pieceNames == [b |-> "bd.png", B |-> "bl.png", k |-> "kd.png", K |-> "kl.png",
               n |-> "nd.png", N |-> "nl.png", p |-> "pd.png", P |-> "pl.png",
               q |-> "qd.png", Q |-> "ql.png", r |-> "rd.png", R |-> "rl.png"]

\* a nil *gg.Context, and a nil image.Image
NoContext == [size |-> -1, ops |-> <<>>]

\* gg.NewContext(size, size)
NewContext(size) == [size |-> size, ops |-> <<>>]

\* DrawRectangle(x, y, w, h); SetRGB255(rgb); Fill()
FillRect(ctx, x, y, w, h, rgb) ==
    [ctx EXCEPT !.ops = Append(@, [kind |-> "rect", x |-> x, y |-> y, w |-> w, h |-> h,
                                   rgb |-> rgb, what |-> ""])]

\* basicfont.Face7x13: a glyph cell is 7 wide, 11 above and 2 below the baseline
glyphWidth == 7

glyphAscent == 11

glyphDescent == 2

\* SetRGB255(rgb); DrawString(s, x, y) with (x, y) the start of the baseline
DrawString(ctx, s, x, y, rgb) ==
    [ctx EXCEPT !.ops = Append(@, [kind |-> "text", x |-> x, y |-> y - glyphAscent,
                                   w |-> glyphWidth, h |-> glyphAscent + glyphDescent,
                                   rgb |-> rgb, what |-> s])]

\* DrawImage(im, x, y) of a size x size sprite
DrawImage(ctx, im, size, x, y) ==
    [ctx EXCEPT !.ops = Append(@, [kind |-> "image", x |-> x, y |-> y, w |-> size, h |-> size,
                                   rgb |-> <<>>, what |-> im])]

-----------------------------------------------------------------------------
(* Asset resolver                                                          *)

\* the embedded assets: one sprite per piece name
assets == [path \in {"assets/" \o pieceNames[s] : s \in PieceSymbols} |-> "sprite " \o path]

\* caller-supplied file systems, by handle: a complete sprite set under
\* "img/", one without the queens, one whose black king is not a PNG
Files(fs) ==
    LET full == [path \in {"img/" \o pieceNames[s] : s \in PieceSymbols} |-> "custom " \o path]
    IN  CASE fs = "pack" -> full
          [] fs = "noQueen" -> [path \in DOMAIN full \ {"img/ql.png", "img/qd.png"} |-> full[path]]
          [] fs = "badKing" -> [full EXCEPT !["img/kd.png"] = "garbage"]

\* loadPNG: fs.Open then png.Decode
loadPNG(fs, assetPath) ==
    LET fsys == IF fs = Nil THEN assets ELSE Files(fs)
        path == IF fs = Nil THEN "assets/" \o assetPath ELSE assetPath
    IN  IF path \notin DOMAIN fsys
        THEN [img |-> "", err |-> "open " \o path \o ": file does not exist"]
        ELSE IF fsys[path] = "garbage"
        THEN [img |-> "", err |-> "png: invalid format: not a PNG file"]
        ELSE [img |-> fsys[path], err |-> Nil]

\* resizeImage: always draw.BiLinear, to pieceSize x pieceSize
resizeImage(png, ds) == "BiLinear " \o png

-----------------------------------------------------------------------------
(* The layers of Render.  Each takes the canvas and the drawSize it finds  *)
(* in the Renderer's fields and returns the canvas after the layer.        *)

drawBackground(ctx, ds) ==
    LET gridSize == ds.gridSize
        cell(k) ==
            LET row == (k - 1) \div 8
                col == (k - 1) % 8
            IN  [kind |-> "rect", x |-> row * gridSize, y |-> col * gridSize,
                 w |-> gridSize, h |-> gridSize,
                 rgb |-> IF (col + row) % 2 = 0 THEN colorLight ELSE colorDark,
                 what |-> ""]
    IN  [ctx EXCEPT !.ops = @ \o [k \in 1..64 |-> cell(k)]]

\* the highlight colour chosen from the rank alone
highlightCells_rankParity(ctx, ds, lm, o) ==
    IF lm = <<>> THEN ctx
    ELSE
    LET lastMoveFromRank == IF o.Inverted THEN rankInverted(lm[1].From) ELSE rank(lm[1].From)
        lastMoveFromFile == IF o.Inverted THEN fileInverted(lm[1].From) ELSE file(lm[1].From)
        lastMoveToRank == IF o.Inverted THEN rankInverted(lm[1].To) ELSE rank(lm[1].To)
        lastMoveToFile == IF o.Inverted THEN fileInverted(lm[1].To) ELSE file(lm[1].To)
        moveFromHighlight ==
            IF GoMod(lastMoveFromRank, 2) # 0 THEN colorHighlightDark ELSE colorHighlightLight
        moveToHighlight ==
            IF GoMod(lastMoveToRank, 2) # 0 THEN colorHighlightDark ELSE colorHighlightLight
        gridSize == ds.gridSize
        c1 == FillRect(ctx, lastMoveFromFile * gridSize, lastMoveFromRank * gridSize,
                       gridSize, gridSize, moveFromHighlight)
    IN  FillRect(c1, lastMoveToFile * gridSize, lastMoveToRank * gridSize,
                 gridSize, gridSize, moveToHighlight)

highlightCells(ctx, ds, lm, o) ==
    IF lm = <<>> THEN ctx
    ELSE
    LET lastMoveFromRank == IF o.Inverted THEN rankInverted(lm[1].From) ELSE rank(lm[1].From)
        lastMoveFromFile == IF o.Inverted THEN fileInverted(lm[1].From) ELSE file(lm[1].From)
        lastMoveToRank == IF o.Inverted THEN rankInverted(lm[1].To) ELSE rank(lm[1].To)
        lastMoveToFile == IF o.Inverted THEN fileInverted(lm[1].To) ELSE file(lm[1].To)
        moveFromHighlight ==
            IF GoMod(lastMoveFromRank, 2) # GoMod(lastMoveFromFile, 2)
            THEN colorHighlightDark ELSE colorHighlightLight
        moveToHighlight ==
            IF GoMod(lastMoveToRank, 2) # GoMod(lastMoveToFile, 2)
            THEN colorHighlightDark ELSE colorHighlightLight
        gridSize == ds.gridSize
        c1 == FillRect(ctx, lastMoveFromFile * gridSize, lastMoveFromRank * gridSize,
                       gridSize, gridSize, moveFromHighlight)
    IN  FillRect(c1, lastMoveToFile * gridSize, lastMoveToRank * gridSize,
                 gridSize, gridSize, moveToHighlight)

\* the check square placed with x from the rank and y from the file, the
\* order drawPiece uses
drawCheckTile_transposed(ctx, ds, ct, o) ==
    IF ct = NoTile THEN ctx
    ELSE
    LET checkTileFile == IF o.Inverted THEN fileInverted(ct) ELSE file(ct)
        checkTileRank == IF o.Inverted THEN rankInverted(ct) ELSE rank(ct)
        gridSize == ds.gridSize
    IN  FillRect(ctx, checkTileRank * gridSize, checkTileFile * gridSize,
                 gridSize, gridSize, colorCheck)

drawCheckTile(ctx, ds, ct, o) ==
    IF ct = NoTile THEN ctx
    ELSE
    LET checkTileFile == IF o.Inverted THEN fileInverted(ct) ELSE file(ct)
        checkTileRank == IF o.Inverted THEN rankInverted(ct) ELSE rank(ct)
        gridSize == ds.gridSize
    IN  FillRect(ctx, checkTileFile * gridSize, checkTileRank * gridSize,
                 gridSize, gridSize, colorCheck)

\* the labels of one edge, i = 0..7 in order
RECURSIVE drawLabels(_, _, _, _, _, _)
drawLabels(ctx, symbols, i, ds, o, isFile) ==
    IF i >= Len(symbols) THEN ctx
    ELSE
    LET color == IF i % 2 = 0 THEN colorLight ELSE colorDark
        drawn == IF isFile
                 THEN DrawString(ctx, symbols[i + 1], ds.gridSize * i + 2, o.BoardSize - 3, color)
                 ELSE DrawString(ctx, symbols[i + 1], o.BoardSize - 10, ds.gridSize * i + 12, color)
    IN  drawLabels(drawn, symbols, i + 1, ds, o, isFile)

\* the rank digits left in the order 8..1 when the board is inverted
drawRankFile_ranksNotFlipped(ctx, ds, o) ==
    LET files == drawLabels(ctx, IF o.Inverted THEN fileSymbolsReverse ELSE fileSymbols,
                            0, ds, o, TRUE)
    IN  drawLabels(files, rankSymbolsReverse, 0, ds, o, FALSE)

drawRankFile(ctx, ds, o) ==
    LET files == drawLabels(ctx, IF o.Inverted THEN fileSymbolsReverse ELSE fileSymbols,
                            0, ds, o, TRUE)
    IN  drawLabels(files, IF o.Inverted THEN rankSymbols ELSE rankSymbolsReverse,
                   0, ds, o, FALSE)

\* the sprite placed with x from the file and y from the rank, the order the
\* highlights use
drawPiece_untransposed(ctx, ds, piece, o) ==
    LET name == IF piece.pieceSymbol \in DOMAIN pieceNames
                THEN pieceNames[piece.pieceSymbol] ELSE ""
        png == loadPNG(o.FileSystem, o.AssetPath \o name)
        resized == resizeImage(png.img, ds)
        gridSize == ds.gridSize
        pieceOffset == ds.pieceOffset
        pieceRank == IF o.Inverted THEN rankInverted(piece.tile) ELSE rank(piece.tile)
        pieceFile == IF o.Inverted THEN fileInverted(piece.tile) ELSE file(piece.tile)
    IN  IF png.err # Nil THEN [ctx |-> ctx, err |-> png.err]
        ELSE [ctx |-> DrawImage(ctx, resized, ds.pieceSize,
                                gridSize * pieceFile + pieceOffset,
                                gridSize * pieceRank + pieceOffset),
              err |-> Nil]

\* drawPiece: the canvas after it and its error
drawPiece(ctx, ds, piece, o) ==
    LET name == IF piece.pieceSymbol \in DOMAIN pieceNames
                THEN pieceNames[piece.pieceSymbol] ELSE ""
        png == loadPNG(o.FileSystem, o.AssetPath \o name)
        resized == resizeImage(png.img, ds)
        gridSize == ds.gridSize
        pieceOffset == ds.pieceOffset
        pieceRank == IF o.Inverted THEN rankInverted(piece.tile) ELSE rank(piece.tile)
        pieceFile == IF o.Inverted THEN fileInverted(piece.tile) ELSE file(piece.tile)
    IN  IF png.err # Nil THEN [ctx |-> ctx, err |-> png.err]
        ELSE [ctx |-> DrawImage(ctx, resized, ds.pieceSize,
                                gridSize * pieceRank + pieceOffset,
                                gridSize * pieceFile + pieceOffset),
              err |-> Nil]

\* drawBoard from position i on: stops at the first error
RECURSIVE drawBoard(_, _, _, _, _)
drawBoard(ctx, ds, b, i, o) ==
    IF i > Len(b) THEN [ctx |-> ctx, err |-> Nil]
    ELSE LET r == drawPiece(ctx, ds, b[i], o)
         IN  IF r.err # Nil THEN r ELSE drawBoard(r.ctx, ds, b, i + 1, o)

\* Render run from start to end on a Renderer no other call touches:
\* the pair (image, error) it returns
Render(b, ct, lm, options) ==
    LET o == defaults(options)
        ds == calcDrawSize(o)
        c0 == NewContext(o.BoardSize)
        c1 == drawBackground(c0, ds)
        c2 == highlightCells(c1, ds, lm, o)
        c3 == drawCheckTile(c2, ds, ct, o)
        c4 == drawRankFile(c3, ds, o)
        r == drawBoard(c4, ds, b, 1, o)
    IN  IF r.err # Nil THEN [img |-> NoContext, err |-> r.err]
        ELSE [img |-> r.ctx, err |-> Nil]

-----------------------------------------------------------------------------
(* The Renderer as a state machine.  A caller is a thread of control that  *)
(* calls the Renderer's methods; Render advances one layer per step and    *)
(* reads and writes the Renderer's context and drawSize fields.            *)

Callers == {1, 2}

ZeroOptions == [FileSystem |-> Nil, AssetPath |-> "", Resizer |-> Nil, BoardSize |-> 0,
                PieceRatio |-> [num |-> 0, den |-> 4], Inverted |-> FALSE]

ZeroDrawSize == [gridSize |-> 0, pieceSize |-> 0, pieceOffset |-> 0]

\* a caller outside any call, holding no result
IdleCall == [pc |-> "idle", o |-> ZeroOptions, i |-> 0, img |-> NoContext, err |-> Nil]

Outside(c) == calls[c].pc \in {"idle", "done"}

At(c, stage) == calls[c].pc = stage

Goto(c, stage) == calls' = [calls EXCEPT ![c].pc = stage]

NoInput == [fn |-> "", an |-> "", rank |-> 0, file |-> 0, o |-> ZeroOptions]

NoOutput == [done |-> FALSE, tile |-> NoTile, err |-> Nil, ds |-> ZeroDrawSize]

\* NewRendererFromFEN(fen), when decodeFEN succeeds
NewRendererFromFEN(fen) ==
    /\ ~fenError(fen)
    /\ board = decodeFEN(fen)
    /\ checkTile = NoTile
    /\ lastMove = <<>>
    /\ drawSize = ZeroDrawSize
    /\ context = NoContext
    /\ calls = [c \in Callers |-> IdleCall]

SetCheckTile(c, tile) ==
    /\ Outside(c)
    /\ checkTile' = tile
    /\ calls' = [calls EXCEPT ![c] = IdleCall]
    /\ UNCHANGED <<board, lastMove, drawSize, context, input, output>>

SetLastMove(c, move) ==
    /\ Outside(c)
    /\ lastMove' = <<move>>
    /\ calls' = [calls EXCEPT ![c] = IdleCall]
    /\ UNCHANGED <<board, checkTile, drawSize, context, input, output>>

\* Render, lines 100-109: the defaults and r.drawSize
RenderBegin(c, options) ==
    /\ Outside(c)
    /\ calls' = [calls EXCEPT ![c] = [pc |-> "newContext", o |-> defaults(options), i |-> 1,
                                      img |-> NoContext, err |-> Nil]]
    /\ drawSize' = calcDrawSize(defaults(options))
    /\ UNCHANGED <<board, checkTile, lastMove, context, input, output>>

\* a Render that draws on the canvas an earlier call left, when its side fits
RenderNewContext_reuse(c) ==
    /\ At(c, "newContext")
    /\ context' = IF context.size = calls[c].o.BoardSize THEN context
                  ELSE NewContext(calls[c].o.BoardSize)
    /\ Goto(c, "drawBackground")
    /\ UNCHANGED <<board, checkTile, lastMove, drawSize, input, output>>

\* Render, line 110: r.context = gg.NewContext(...)
RenderNewContext(c) ==
    /\ At(c, "newContext")
    /\ context' = NewContext(calls[c].o.BoardSize)
    /\ Goto(c, "drawBackground")
    /\ UNCHANGED <<board, checkTile, lastMove, drawSize, input, output>>

RenderDrawBackground(c) ==
    /\ At(c, "drawBackground")
    /\ context' = drawBackground(context, drawSize)
    /\ Goto(c, "highlightCells")
    /\ UNCHANGED <<board, checkTile, lastMove, drawSize, input, output>>

RenderHighlightCells(c) ==
    /\ At(c, "highlightCells")
    /\ context' = highlightCells(context, drawSize, lastMove, calls[c].o)
    /\ Goto(c, "drawCheckTile")
    /\ UNCHANGED <<board, checkTile, lastMove, drawSize, input, output>>

RenderDrawCheckTile(c) ==
    /\ At(c, "drawCheckTile")
    /\ context' = drawCheckTile(context, drawSize, checkTile, calls[c].o)
    /\ Goto(c, "drawRankFile")
    /\ UNCHANGED <<board, checkTile, lastMove, drawSize, input, output>>

RenderDrawRankFile(c) ==
    /\ At(c, "drawRankFile")
    /\ context' = drawRankFile(context, drawSize, calls[c].o)
    /\ Goto(c, "drawBoard")
    /\ UNCHANGED <<board, checkTile, lastMove, drawSize, input, output>>

\* a drawBoard that goes on to the next position when a sprite fails to load
RenderDrawPiece_skipFailed(c) ==
    /\ At(c, "drawBoard")
    /\ calls[c].i <= Len(board)
    /\ context' = drawPiece(context, drawSize, board[calls[c].i], calls[c].o).ctx
    /\ calls' = [calls EXCEPT ![c].i = @ + 1]
    /\ UNCHANGED <<board, checkTile, lastMove, drawSize, input, output>>

\* drawBoard, one position of the loop: drawPiece, and the return of its error
RenderDrawPiece(c) ==
    /\ At(c, "drawBoard")
    /\ calls[c].i <= Len(board)
    /\ LET r == drawPiece(context, drawSize, board[calls[c].i], calls[c].o)
       IN  /\ context' = r.ctx
           /\ calls' = IF r.err # Nil
                       THEN [calls EXCEPT ![c].pc = "done", ![c].err = r.err]
                       ELSE [calls EXCEPT ![c].i = @ + 1]
    /\ UNCHANGED <<board, checkTile, lastMove, drawSize, input, output>>

\* Render, line 118: return r.context.Image(), nil
RenderReturn(c) ==
    /\ At(c, "drawBoard")
    /\ calls[c].i > Len(board)
    /\ calls' = [calls EXCEPT ![c].pc = "done", ![c].img = context]
    /\ UNCHANGED <<board, checkTile, lastMove, drawSize, context, input, output>>

\* the steps of a Render call that has begun
RenderStep(c) ==
    \/ RenderNewContext(c)
    \/ RenderDrawBackground(c)
    \/ RenderHighlightCells(c)
    \/ RenderDrawCheckTile(c)
    \/ RenderDrawRankFile(c)
    \/ RenderDrawPiece(c)
    \/ RenderReturn(c)

-----------------------------------------------------------------------------
(* Inputs                                                                  *)

\* cmd demoFEN: "rnbqkbnr/ppppp2p/5p2/6pQ/3PP3/8/PPP2PPP/RNB1KBNR b KQkq - 1 3"
demoFEN == <<
    "r", "n", "b", "q", "k", "b", "n", "r", "/", "p", "p", "p", "p", "p", "2", "p",
    "/", "5", "p", "2", "/", "6", "p", "Q", "/", "3", "P", "P", "3", "/", "8", "/",
    "P", "P", "P", "2", "P", "P", "P", "/", "R", "N", "B", "1", "K", "B", "N", "R",
    " ", "b", " ", "K", "Q", "k", "q", " ", "-", " ", "1", " ", "3" >>

\* "8/8/8/8/8/8/8/8 w - - 0 1"
emptyFEN == <<
    "8", "/", "8", "/", "8", "/", "8", "/", "8", "/", "8", "/", "8", "/", "8", " ",
    "w", " ", "-", " ", "-", " ", "0", " ", "1" >>

\* every square occupied
fullFEN == <<
    "r", "n", "b", "q", "k", "b", "n", "r", "/", "p", "p", "p", "p", "p", "p", "p",
    "p", "/", "P", "P", "P", "P", "P", "P", "P", "P", "/", "R", "N", "B", "Q", "K",
    "B", "N", "R", "/", "r", "n", "b", "q", "k", "b", "n", "r", "/", "p", "p", "p",
    "p", "p", "p", "p", "p", "/", "P", "P", "P", "P", "P", "P", "P", "P", "/", "R",
    "N", "B", "Q", "K", "B", "N", "R", " ", "w", " ", "-", " ", "-", " ", "0", " ",
    "1" >>

\* two kings and a queen: "4k3/8/8/7Q/8/8/8/3K4 w - - 0 1"
smallFEN == <<
    "4", "k", "3", "/", "8", "/", "8", "/", "7", "Q", "/", "8", "/", "8", "/", "8",
    "/", "3", "K", "4", " ", "w", " ", "-", " ", "-", " ", "0", " ", "1" >>

\* a lone king: "8/8/8/8/8/8/8/4K3"
kingFEN == <<
    "8", "/", "8", "/", "8", "/", "8", "/", "8", "/", "8", "/", "8", "/", "4", "K",
    "3" >>

\* largest distance, in Tile indices, from LastMove.From to LastMove.To
MoveSpan == 2

\* largest BoardSize and largest PieceRatio numerator (in quarters) passed to
\* a direct call of the geometry calculator
MaxBoardSize == 40

MaxRatioNum == 10

Option(fs, path, size, ratioNum, inverted) ==
    [FileSystem |-> fs, AssetPath |-> path, Resizer |-> Nil, BoardSize |-> size,
     PieceRatio |-> [num |-> ratioNum, den |-> 4], Inverted |-> inverted]

\* every Tile, with a LastMove whose To is at most MoveSpan after its From
AllMoves == {[From |-> f, To |-> (f + d) % 64] : f \in Tiles, d \in 0..MoveSpan}

OnceOptions == {Option(Nil, "", 0, 0, inv) : inv \in BOOLEAN}

SampleTiles == {NoTile, E8}

SampleMoves == {[From |-> D1, To |-> H5]}

BoardOptions ==
    {Option(Nil, "", size, 0, inv) : size \in {0, 20}, inv \in BOOLEAN}
    \cup {Option("noQueen", "img/", 0, 0, inv) : inv \in BOOLEAN}

SeqOptions ==
    {Option(Nil, "", size, 0, inv) : size \in {0, 20}, inv \in BOOLEAN}
    \cup {Option(Nil, "", 8, 8, inv) : inv \in BOOLEAN}
    \cup {Option(fs, "img/", size, 0, FALSE) : fs \in {"pack", "noQueen", "badKing"}, size \in {0, 20}}

ConcOptions == {Option(Nil, "", 16, 0, FALSE), Option(Nil, "", 24, 6, TRUE)}

ANInputs ==
    LET letters == {"a", "b", "c", "d", "e", "f", "g", "h", "i", "z", "A", "E", ""}
        digits == {"0", "1", "2", "3", "4", "5", "6", "7", "8", "9", ""}
    IN  {l \o d : l \in letters, d \in digits}
        \cup {l \o d \o "1" : l \in {"a", "e"}, d \in {"1", "5"}}
        \cup {d \o l : l \in {"a", "e"}, d \in {"1", "5"}}

-----------------------------------------------------------------------------
(* Specifications                                                          *)

\* direct calls of the pure functions
CallTileFromAN ==
    /\ input.fn = "TileFromAN" /\ ~output.done
    /\ output' = [NoOutput EXCEPT !.done = TRUE, !.tile = TileFromAN(input.an).tile,
                                  !.err = TileFromAN(input.an).err]
    /\ UNCHANGED <<board, checkTile, lastMove, drawSize, context, calls, input>>

CallTileFromRankFile ==
    /\ input.fn = "tileFromRankFile" /\ ~output.done
    /\ output' = [NoOutput EXCEPT !.done = TRUE, !.tile = tileFromRankFile(input.rank, input.file)]
    /\ UNCHANGED <<board, checkTile, lastMove, drawSize, context, calls, input>>

CallCalcDrawSize ==
    /\ input.fn = "calcDrawSize" /\ ~output.done
    /\ output' = [NoOutput EXCEPT !.done = TRUE, !.ds = calcDrawSize(defaults(input.o))]
    /\ UNCHANGED <<board, checkTile, lastMove, drawSize, context, calls, input>>

InitFn ==
    /\ NewRendererFromFEN(emptyFEN)
    /\ output = NoOutput
    /\ \/ \E an \in ANInputs : input = [NoInput EXCEPT !.fn = "TileFromAN", !.an = an]
       \/ \E r \in 0..7, f \in 0..7 :
             input = [NoInput EXCEPT !.fn = "tileFromRankFile", !.rank = r, !.file = f]
       \/ \E size \in -1..MaxBoardSize, n \in -1..MaxRatioNum :
             input = [NoInput EXCEPT !.fn = "calcDrawSize",
                                     !.o = Option(Nil, "", size, n, FALSE)]

NextFn == CallTileFromAN \/ CallTileFromRankFile \/ CallCalcDrawSize

SpecFn == InitFn /\ [][NextFn]_vars

\* one caller that sets the Renderer up and renders once as cmd's main does:
\* NewRendererFromFEN, then SetLastMove or not, then SetCheckTile or not, then
\* Render
InitOnce ==
    /\ NewRendererFromFEN(kingFEN)
    /\ input = NoInput /\ output = NoOutput

NextOnce ==
    \/ /\ At(1, "idle") /\ lastMove = <<>> /\ checkTile = NoTile
       /\ \E move \in AllMoves : SetLastMove(1, move)
    \/ /\ At(1, "idle") /\ checkTile = NoTile
       /\ \E tile \in Tiles : SetCheckTile(1, tile)
    \/ At(1, "idle") /\ \E options \in OnceOptions : RenderBegin(1, options)
    \/ RenderStep(1)

SpecOnce == InitOnce /\ [][NextOnce]_vars

\* the same life cycle on whole boards, with a few tiles and more Options
InitBoard ==
    /\ \E fen \in {demoFEN, emptyFEN, fullFEN} : NewRendererFromFEN(fen)
    /\ input = NoInput /\ output = NoOutput

NextBoard ==
    \/ At(1, "idle") /\ \E tile \in SampleTiles : SetCheckTile(1, tile)
    \/ At(1, "idle") /\ \E move \in SampleMoves : SetLastMove(1, move)
    \/ At(1, "idle") /\ \E options \in BoardOptions : RenderBegin(1, options)
    \/ RenderStep(1)

SpecBoard == InitBoard /\ [][NextBoard]_vars

\* one caller, any sequence of setters and Render calls
Init ==
    /\ \E fen \in {smallFEN, emptyFEN} : NewRendererFromFEN(fen)
    /\ input = NoInput /\ output = NoOutput

Next ==
    \/ \E tile \in SampleTiles : SetCheckTile(1, tile)
    \/ \E move \in SampleMoves : SetLastMove(1, move)
    \/ \E options \in SeqOptions : RenderBegin(1, options)
    \/ RenderStep(1)

Spec == Init /\ [][Next]_vars

\* two callers, each rendering once with its own Options, after the set-up
InitConc ==
    /\ NewRendererFromFEN(kingFEN)
    /\ input = NoInput /\ output = NoOutput

NextConc ==
    \/ (\A c \in Callers : At(c, "idle")) /\ \E tile \in SampleTiles : SetCheckTile(1, tile)
    \/ (\A c \in Callers : At(c, "idle")) /\ \E move \in SampleMoves : SetLastMove(1, move)
    \/ \E c \in Callers, options \in ConcOptions :
          /\ At(c, "idle")
          /\ \A d \in Callers \ {c} : At(d, "idle") \/ calls[d].o # defaults(options)
          /\ RenderBegin(c, options)
    \/ \E c \in Callers : RenderStep(c)

SpecConc == InitConc /\ [][NextConc]_vars

-----------------------------------------------------------------------------
(* Properties of the pure functions, under SpecFn                          *)

\* the algebraic name of the square in column c (0 = a) with rank digit d
SquareName(c, d) == fileSymbols[c + 1] \o rankSymbols[d]

SquareNames == {SquareName(c, d) : c \in 0..7, d \in 1..8}

CalledTileFromAN == input.fn = "TileFromAN" /\ output.done

\* C1: TileFromAN is total and exact on the 64 square names and fails on
\* everything else: the name of column c and digit d gives, with no error, a
\* Tile in 0..63 with file() = c and rank() = 8 - d; the 64 names give 64
\* distinct Tiles; any other string gives NoTile and a not-found error.
C1_TileFromAN ==
    CalledTileFromAN =>
        /\ \A c \in 0..7, d \in 1..8 :
              input.an = SquareName(c, d) =>
                  /\ output.err = Nil
                  /\ output.tile \in 0..63
                  /\ file(output.tile) = c
                  /\ rank(output.tile) = 8 - d
        /\ input.an \notin SquareNames =>
              /\ output.tile = NoTile
              /\ output.err = "tile " \o input.an \o " not found"
        /\ Cardinality({TileFromAN(n).tile : n \in SquareNames}) = 64

\* TileFromAN("e5") has returned the Tile of row 3, column 4
C1_Witness ==
    /\ CalledTileFromAN
    /\ input.an = "e5"
    /\ output.err = Nil
    /\ rank(output.tile) = 3 /\ file(output.tile) = 4

CalledTileFromRankFile == input.fn = "tileFromRankFile" /\ output.done

\* C7: tileFromRankFile round-trips through the projections: for rank and
\* file in 0..7, the Tile built from (rank, file) has rank() = rank and
\* file() = file.
C7_RoundTrip ==
    CalledTileFromRankFile =>
        /\ rank(output.tile) = input.rank
        /\ file(output.tile) = input.file

CalledCalcDrawSize == input.fn = "calcDrawSize" /\ output.done

\* C10 as stated: the centering offset is floor((gridSize - pieceSize) / 2)
\* for every gridSize and pieceSize Render derives, pieceSize > gridSize
\* included.
C10_FloorOffset ==
    CalledCalcDrawSize =>
        output.ds.pieceOffset = (output.ds.gridSize - output.ds.pieceSize) \div 2

\* C10 amended: gridSize is BoardSize / 8 (of 512 when BoardSize <= 0),
\* pieceSize is gridSize times the PieceRatio passed when that is > 0 (times
\* 0.9 otherwise), rounded down, and the offset is (gridSize - pieceSize) / 2
\* rounded toward zero: the floor when pieceSize <= gridSize or the
\* difference is even, the floor plus one when the difference is negative
\* and odd.
C10_TruncOffset ==
    CalledCalcDrawSize =>
        LET size == IF input.o.BoardSize <= 0 THEN 512 ELSE input.o.BoardSize
            n == input.o.PieceRatio.num
            g == output.ds.gridSize
            s == output.ds.pieceSize
            d == g - s
        IN  /\ g = size \div 8
            /\ s = IF n > 0 THEN (g * n) \div 4 ELSE (g * 9) \div 10
            /\ output.ds.pieceOffset = IF d < 0 /\ d % 2 = 1 THEN (d \div 2) + 1 ELSE d \div 2

\* a PieceRatio above 1 was passed and the difference is negative and odd
C10_Witness ==
    /\ CalledCalcDrawSize
    /\ input.o.PieceRatio.num > 4
    /\ output.ds.pieceSize > output.ds.gridSize
    /\ (output.ds.gridSize - output.ds.pieceSize) % 2 = 1

-----------------------------------------------------------------------------
(* Reading a canvas                                                        *)

\* the operations of ctx that paint some pixel of the rectangle
\* [x0, x0 + w) x [y0, y0 + h)
Touching(ctx, x0, y0, w, h) ==
    IF w <= 0 \/ h <= 0 THEN {}
    ELSE {i \in 1..Len(ctx.ops) :
            /\ ctx.ops[i].x < x0 + w /\ ctx.ops[i].x + ctx.ops[i].w > x0
            /\ ctx.ops[i].y < y0 + h /\ ctx.ops[i].y + ctx.ops[i].h > y0
            /\ ctx.ops[i].w > 0 /\ ctx.ops[i].h > 0}

Last(S) == CHOOSE i \in S : \A j \in S : j <= i

\* the colour of the grid cell in column col and row row, of side g: the
\* colour of the last rectangle painted over it when that covers every pixel
\* of the cell; <<>> when nothing was painted there, <<-1>> when the cell is
\* not of one colour
CellPaint(ctx, col, row, g) ==
    LET hit == Touching(ctx, col * g, row * g, g, g)
        top == ctx.ops[Last(hit)]
    IN  IF hit = {} THEN <<>>
        ELSE IF /\ top.kind = "rect"
                /\ top.x <= col * g /\ top.x + top.w >= (col + 1) * g
                /\ top.y <= row * g /\ top.y + top.h >= (row + 1) * g
             THEN top.rgb
             ELSE <<-1>>

\* where a square is on the picture: white at the bottom has file a in
\* column 0 and rank 8 in row 0; inverted, both axes are reversed
NameOf(t) == CHOOSE cd \in (0..7) \X (1..8) : tileMap[SquareName(cd[1], cd[2])] = t

VisualCol(t, inverted) == IF inverted THEN 7 - NameOf(t)[1] ELSE NameOf(t)[1]

VisualRow(t, inverted) == IF inverted THEN NameOf(t)[2] - 1 ELSE 8 - NameOf(t)[2]

BackgroundColor(col, row) == IF (col + row) % 2 = 0 THEN colorLight ELSE colorDark

HighlightColor(col, row) ==
    IF (col + row) % 2 = 0 THEN colorHighlightLight ELSE colorHighlightDark

-----------------------------------------------------------------------------
(* Properties of one Render, under SpecOnce                                *)

\* C2: once the background, last-move and check layers have run, the cell
\* of the CheckTile is pure red whatever its parity and whether or not it is
\* a LastMove end, no cell is red when CheckTile is NoTile, and every other
\* cell holds a last-move highlight colour if it is the From or To cell and
\* its background colour otherwise.
C2_CheckWins ==
    At(1, "drawRankFile") =>
        LET inv == calls[1].o.Inverted
            g == drawSize.gridSize
            check == IF checkTile = NoTile THEN {}
                     ELSE {<<VisualCol(checkTile, inv), VisualRow(checkTile, inv)>>}
            moved == IF lastMove = <<>> THEN {}
                     ELSE {<<VisualCol(lastMove[1].From, inv), VisualRow(lastMove[1].From, inv)>>,
                           <<VisualCol(lastMove[1].To, inv), VisualRow(lastMove[1].To, inv)>>}
        IN  \A cell \in (0..7) \X (0..7) :
               LET paint == CellPaint(context, cell[1], cell[2], g)
               IN  IF cell \in check THEN paint = colorCheck
                   ELSE IF cell \in moved THEN paint = HighlightColor(cell[1], cell[2])
                   ELSE paint = BackgroundColor(cell[1], cell[2])

\* inverted, the check square is also the square the last move ended on
C2_Witness ==
    /\ At(1, "drawRankFile")
    /\ calls[1].o.Inverted
    /\ checkTile \in Tiles
    /\ lastMove # <<>> /\ lastMove[1].To = checkTile /\ lastMove[1].From # checkTile
    /\ CellPaint(context, VisualCol(checkTile, TRUE), VisualRow(checkTile, TRUE),
                 drawSize.gridSize) = colorCheck

\* C9: each cell highlightCells paints gets highlight-light exactly when
\* drawBackground painted that cell light and highlight-dark exactly when it
\* painted it dark; background cell (0,0) is light and the background
\* colours alternate along both axes (BackgroundColor: light exactly where
\* column + row is even).
C9_HighlightParity ==
    /\ At(1, "highlightCells") =>
          \A col \in 0..7, row \in 0..7 :
             CellPaint(context, col, row, drawSize.gridSize) = BackgroundColor(col, row)
    /\ (At(1, "drawCheckTile") /\ lastMove # <<>>) =>
          LET n == Len(context.ops)
              g == drawSize.gridSize
              background == [context EXCEPT !.ops = SubSeq(@, 1, n - 2)]
          IN  \A k \in {n - 1, n} :
                LET op == context.ops[k]
                    under == CellPaint(background, op.x \div g, op.y \div g, g)
                IN  /\ op.x % g = 0 /\ op.y % g = 0 /\ op.w = g /\ op.h = g
                    /\ op.rgb = colorHighlightLight <=> under = colorLight
                    /\ op.rgb = colorHighlightDark <=> under = colorDark
                    /\ under \in {colorLight, colorDark}

\* inverted, a move from a dark square to a light one has been highlighted
C9_Witness ==
    /\ At(1, "drawCheckTile")
    /\ calls[1].o.Inverted
    /\ lastMove # <<>>
    /\ context.ops[Len(context.ops) - 1].rgb = colorHighlightDark
    /\ context.ops[Len(context.ops)].rgb = colorHighlightLight

\* the letters drawn on the bottom edge under the column col, and the digits
\* drawn on the right edge beside the row row
FileLabelsAt(ctx, o, ds, col) ==
    {ctx.ops[i].what : i \in {j \in 1..Len(ctx.ops) :
        /\ ctx.ops[j].kind = "text"
        /\ ctx.ops[j].y + glyphAscent = o.BoardSize - 3
        /\ ctx.ops[j].x = ds.gridSize * col + 2}}

RankLabelsAt(ctx, o, ds, row) ==
    {ctx.ops[i].what : i \in {j \in 1..Len(ctx.ops) :
        /\ ctx.ops[j].kind = "text"
        /\ ctx.ops[j].x = o.BoardSize - 10
        /\ ctx.ops[j].y + glyphAscent = ds.gridSize * row + 12}}

\* the rectangles of the given colours, in the order painted
Painted(ctx, colors) == SelectSeq(ctx.ops, LAMBDA op : op.kind = "rect" /\ op.rgb \in colors)

\* C6: inverted rendering is a point reflection that the labels follow.  For
\* the CheckTile and for each LastMove end t, the cell painted in this
\* orientation and the cell painted in the other one have columns and rows
\* that sum to 7, and in both the letter drawn under the cell's column and
\* the digit drawn beside its row spell the algebraic name of t.
C6_Reflection ==
    (At(1, "drawBoard") /\ calls[1].i = 1 /\ drawSize.gridSize > 0) =>
        LET o == calls[1].o
            g == drawSize.gridSize
            flipped == [o EXCEPT !.Inverted = ~o.Inverted]
            blank == NewContext(o.BoardSize)
            labelsFlipped == drawRankFile(blank, drawSize, flipped)
            Named(t, ctx, opts, op) ==
                /\ op.x % g = 0 /\ op.y % g = 0
                /\ FileLabelsAt(ctx, opts, drawSize, op.x \div g) = {fileSymbols[NameOf(t)[1] + 1]}
                /\ RankLabelsAt(ctx, opts, drawSize, op.y \div g) = {rankSymbols[NameOf(t)[2]]}
            Reflected(t, here, there) ==
                /\ (here.x \div g) + (there.x \div g) = 7
                /\ (here.y \div g) + (there.y \div g) = 7
                /\ Named(t, context, o, here)
                /\ Named(t, labelsFlipped, flipped, there)
        IN  /\ checkTile # NoTile =>
                 /\ Len(Painted(context, {colorCheck})) = 1
                 /\ Reflected(checkTile, Painted(context, {colorCheck})[1],
                              drawCheckTile(blank, drawSize, checkTile, flipped).ops[1])
            /\ lastMove # <<>> =>
                 LET here == Painted(context, {colorHighlightLight, colorHighlightDark})
                     there == highlightCells(blank, drawSize, lastMove, flipped).ops
                 IN  /\ Len(here) = 2
                     /\ Reflected(lastMove[1].From, here[1], there[1])
                     /\ Reflected(lastMove[1].To, here[2], there[2])

\* inverted, with the check on e8 and a move from d1: the letter under the
\* red cell is e and the digit beside it is 8
C6_Witness ==
    /\ At(1, "drawBoard") /\ calls[1].i = 1
    /\ calls[1].o.Inverted
    /\ checkTile = E8
    /\ lastMove # <<>> /\ lastMove[1].From = D1
    /\ Painted(context, {colorCheck})[1].x = 3 * drawSize.gridSize
    /\ Painted(context, {colorCheck})[1].y = 7 * drawSize.gridSize
    /\ FileLabelsAt(context, calls[1].o, drawSize, 3) = {"e"}
    /\ RankLabelsAt(context, calls[1].o, drawSize, 7) = {"8"}

-----------------------------------------------------------------------------
(* Properties of sequences of calls, under Spec                            *)

SpriteLoads(piece, o) ==
    loadPNG(o.FileSystem, o.AssetPath \o pieceNames[piece.pieceSymbol]).err = Nil

Sprites(ctx) == SelectSeq(ctx.ops, LAMBDA op : op.kind = "image")

First(S) == CHOOSE i \in S : \A j \in S : i <= j

\* C3: Render is all-or-nothing.  A sprite that fails to load or decode ends
\* the render at that Position (the earlier Positions were drawn, no later
\* one is, and no step of the call remains) and Render returns that error
\* and no image; it returns an image exactly when every sprite loaded, and
\* then the whole canvas; never an image with an error.
C3_AllOrNothing ==
    At(1, "done") =>
        LET o == calls[1].o
            failing == {i \in 1..Len(board) : ~SpriteLoads(board[i], o)}
        IN  /\ calls[1].img = NoContext <=> calls[1].err # Nil
            /\ calls[1].img # NoContext <=> failing = {}
            /\ failing = {} =>
                  /\ calls[1].img = context
                  /\ Len(Sprites(context)) = Len(board)
            /\ failing # {} =>
                  /\ calls[1].i = First(failing)
                  /\ Len(Sprites(context)) = First(failing) - 1
                  /\ calls[1].err =
                        loadPNG(o.FileSystem,
                                o.AssetPath \o pieceNames[board[First(failing)].pieceSymbol]).err
            /\ ~ENABLED RenderStep(1)

\* the queen, second on the board, had no sprite: the king before it was
\* drawn, the king after it was not, and Render returned the error alone
C3_Witness ==
    /\ At(1, "done")
    /\ calls[1].err # Nil /\ calls[1].img = NoContext
    /\ calls[1].i = 2
    /\ Len(board) = 3
    /\ Len(Sprites(context)) = 1

\* C4: each Render call is independent of the earlier ones.  Whatever
\* setters and Render calls came before, what Render(o) returns is what a
\* Render of the same Board, CheckTile, LastMove and Options returns on a
\* Renderer that never rendered; and no step of Render changes Board,
\* CheckTile or LastMove.
C4_Independent ==
    /\ [](At(1, "done") =>
            [img |-> calls[1].img, err |-> calls[1].err]
                = Render(board, checkTile, lastMove, calls[1].o))
    /\ [][calls'[1].pc # "idle" => UNCHANGED <<board, checkTile, lastMove>>]_vars

\* a Render of a 20-pixel inverted board has returned its image, with the
\* check and the last move set
C4_Witness ==
    /\ At(1, "done")
    /\ calls[1].img # NoContext
    /\ calls[1].o.BoardSize = 20 /\ calls[1].o.Inverted
    /\ checkTile = E8 /\ lastMove # <<>>
    /\ calls[1].img = Render(board, checkTile, lastMove, calls[1].o).img

-----------------------------------------------------------------------------
(* Pieces against highlights, under SpecBoard                              *)

\* C8: pieces and highlights agree on squares.  The sprite of every decoded
\* Position is placed, pieceOffset inside, in the grid cell that
\* drawCheckTile and highlightCells paint for the Tile TileFromAN returns
\* for the name of the square the FEN put the piece on, in either
\* orientation.
C8_PiecesAgree ==
    (At(1, "drawBoard") /\ calls[1].i > 1) =>
        LET fen == CHOOSE f \in {demoFEN, emptyFEN, fullFEN} : decodeFEN(f) = board
            at == fenCursors(fen)[calls[1].i - 1]
            named == TileFromAN(fileSymbols[at.file + 1] \o rankSymbolsReverse[at.rank + 1])
            o == calls[1].o
            blank == NewContext(o.BoardSize)
            sprite == context.ops[Len(context.ops)]
            red == drawCheckTile(blank, drawSize, named.tile, o).ops[1]
            moved == highlightCells(blank, drawSize,
                                    <<[From |-> named.tile, To |-> named.tile]>>, o).ops
        IN  /\ named.err = Nil
            /\ sprite.kind = "image"
            /\ sprite.x - drawSize.pieceOffset = red.x
            /\ sprite.y - drawSize.pieceOffset = red.y
            /\ \A k \in 1..2 : moved[k].x = red.x /\ moved[k].y = red.y

\* the demo position, white at the bottom: the black king, fifth on the
\* board, has been drawn in the cell painted red for CheckTile E8
C8_Witness ==
    /\ At(1, "drawBoard") /\ calls[1].i = 6
    /\ board = decodeFEN(demoFEN)
    /\ ~calls[1].o.Inverted
    /\ checkTile = E8
    /\ board[5].pieceSymbol = "k"
    /\ Painted(context, {colorCheck})[1].x = 4 * drawSize.gridSize
    /\ context.ops[Len(context.ops)].x = 4 * drawSize.gridSize + drawSize.pieceOffset
    /\ context.ops[Len(context.ops)].y = drawSize.pieceOffset

-----------------------------------------------------------------------------
(* Interleaved Render calls, under SpecConc                                *)

\* what a pixel shows: the last rectangle painted over it and, in order,
\* the glyphs and sprites drawn over that rectangle since
PixelAt(ctx, px, py) ==
    LET hit == Touching(ctx, px, py, 1, 1)
        rects == {i \in hit : ctx.ops[i].kind = "rect"}
        above == {i \in hit : rects = {} \/ i >= Last(rects)}
    IN  {<<Cardinality({j \in above : j <= i}), ctx.ops[i].kind, ctx.ops[i].rgb,
           ctx.ops[i].what, ctx.ops[i].w, ctx.ops[i].h, px - ctx.ops[i].x, py - ctx.ops[i].y>> :
            i \in above}

\* two images of the same side that agree at the middle of each of the 64
\* squares of that side's grid
AgreeOnCells(a, b) ==
    /\ a.size = b.size
    /\ \A col \in 0..7, row \in 0..7 :
          LET px == col * (b.size \div 8) + (b.size \div 16)
              py == row * (b.size \div 8) + (b.size \div 16)
          IN  PixelAt(a, px, py) = PixelAt(b, px, py)

\* C5: when the steps of two Render calls with different Options on one
\* Renderer interleave and no setter runs, each call returns the image it
\* would return if run alone (here: an image of the same side showing the
\* same at the middle of every square, and the same error).
C5_Isolated ==
    \A c \in Callers :
        At(c, "done") =>
            LET alone == Render(board, checkTile, lastMove, calls[c].o)
            IN  /\ calls[c].err = alone.err
                /\ AgreeOnCells(calls[c].img, alone.img)

=============================================================================
